---- MODULE Spec2Model ----
(***************************************************************************)
(* Model of the switchcontroller crate (switchcontroller/src/lib.rs):      *)
(* the Button table, the ControllerState builder with its STATE encoder,   *)
(* and the SwitchController command session over a byte transport.         *)
(*                                                                         *)
(* A Rust String is modelled as a sequence of one-character strings, so    *)
(* that lengths, positions and tokens of a wire line can be inspected.     *)
(* Bit position i of the protocol (0..17) is index i + 1 of a sequence.    *)
(***************************************************************************)
EXTENDS Integers, Sequences, FiniteSets, TLC

VARIABLES
    buttons,      \* ControllerState.buttons: [bool; 18]
    left_stick,   \* ControllerState.left_stick: Option<(f32, f32)>
    right_stick,  \* ControllerState.right_stick: Option<(f32, f32)>
    received,     \* bytes the transport has accepted, in order
    portlog,      \* every write / flush call made on the transport, in order
    ret,          \* value returned by the most recent call
    call,         \* the most recent call: operation, arguments, transport outcomes
    history,      \* the session operations called so far, in call order
    lastSet,      \* per button: the `pressed` of its latest set_button, or "never"
    ncalls,       \* number of calls made so far
    budget        \* number of calls the caller makes in this run

vars == <<buttons, left_stick, right_stick, received, portlog, ret, call,
          history, lastSet, ncalls, budget>>

stateVars == <<buttons, left_stick, right_stick>>
portVars == <<received, portlog, history>>

-----------------------------------------------------------------------------
(* Bounds of the model *)

\* calls made on one ControllerState in SpecState and in SpecResend
MaxSteps == 3
\* calls made on one ControllerState in SpecEncode
MaxCalls == 4
\* operations issued on one session in SpecSession
MaxSends == 2
\* length of the button slices given to press / hold / release in SpecPress
MaxButtons == 2

-----------------------------------------------------------------------------
(* Button, Stick *)

NumButtons == 18

Button == {"A", "B", "X", "Y", "L", "R", "ZL", "ZR", "Plus", "Minus", "Home",
           "Capture", "LStick", "RStick", "DpadUp", "DpadDown", "DpadLeft",
           "DpadRight"}

ALL_dup == <<"A", "B", "X", "Y", "L", "R", "ZL", "ZL", "Plus", "Minus", "Home",
             "Capture", "LStick", "RStick", "DpadUp", "DpadDown", "DpadLeft",
             "DpadRight">>

ALL == <<"A", "B", "X", "Y", "L", "R", "ZL", "ZR", "Plus", "Minus", "Home",
         "Capture", "LStick", "RStick", "DpadUp", "DpadDown", "DpadLeft",
         "DpadRight">>

Button_as_str(b) ==
    CASE b = "A" -> <<"a">>
      [] b = "B" -> <<"b">>
      [] b = "X" -> <<"x">>
      [] b = "Y" -> <<"y">>
      [] b = "L" -> <<"l">>
      [] b = "R" -> <<"r">>
      [] b = "ZL" -> <<"z", "l">>
      [] b = "ZR" -> <<"z", "r">>
      [] b = "Plus" -> <<"p", "l", "u", "s">>
      [] b = "Minus" -> <<"m", "i", "n", "u", "s">>
      [] b = "Home" -> <<"h", "o", "m", "e">>
      [] b = "Capture" -> <<"c", "a", "p", "t", "u", "r", "e">>
      [] b = "LStick" -> <<"l", "_", "s", "t", "i", "c", "k">>
      [] b = "RStick" -> <<"r", "_", "s", "t", "i", "c", "k">>
      [] b = "DpadUp" -> <<"d", "p", "a", "d", "_", "u", "p">>
      [] b = "DpadDown" -> <<"d", "p", "a", "d", "_", "d", "o", "w", "n">>
      [] b = "DpadLeft" -> <<"d", "p", "a", "d", "_", "l", "e", "f", "t">>
      [] b = "DpadRight" -> <<"d", "p", "a", "d", "_", "r", "i", "g", "h", "t">>

Stick == {"Left", "Right"}

Stick_as_str(s) ==
    CASE s = "Left" -> <<"l", "_", "s", "t", "i", "c", "k">>
      [] s = "Right" -> <<"r", "_", "s", "t", "i", "c", "k">>

-----------------------------------------------------------------------------
(* f32 values and their Display form *)

\* A finite f32 is sign and magnitude in quarters (every such value is exactly
\* representable); NaN and the infinities are values of the type as well.
Fin(neg, q) == [k |-> "fin", neg |-> neg, q |-> q]
NaN == [k |-> "nan", neg |-> FALSE, q |-> 0]
Inf(neg) == [k |-> "inf", neg |-> neg, q |-> 0]

Digit(d) ==
    CASE d = 0 -> "0" [] d = 1 -> "1" [] d = 2 -> "2" [] d = 3 -> "3"
      [] d = 4 -> "4" [] d = 5 -> "5" [] d = 6 -> "6" [] d = 7 -> "7"
      [] d = 8 -> "8" [] d = 9 -> "9"

RECURSIVE FmtNat(_)
FmtNat(n) == IF n < 10 THEN <<Digit(n)>> ELSE FmtNat(n \div 10) \o <<Digit(n % 10)>>

FmtSign(x) == IF x.neg THEN <<"-">> ELSE <<>>

\* `{:?}` instead of `{}`: an integral value keeps its ".0"
FmtF32_debug(x) ==
    IF x.k = "nan" THEN <<"N", "a", "N">>
    ELSE IF x.k = "inf" THEN FmtSign(x) \o <<"i", "n", "f">>
    ELSE FmtSign(x) \o FmtNat(x.q \div 4) \o
         (CASE x.q % 4 = 0 -> <<".", "0">>
            [] x.q % 4 = 1 -> <<".", "2", "5">>
            [] x.q % 4 = 2 -> <<".", "5">>
            [] x.q % 4 = 3 -> <<".", "7", "5">>)

\* `{}` of an f32: shortest decimal that reads back as the value, no exponent,
\* no fraction for an integral value, the sign bit printed, "NaN" and "inf".
FmtF32(x) ==
    IF x.k = "nan" THEN <<"N", "a", "N">>
    ELSE IF x.k = "inf" THEN FmtSign(x) \o <<"i", "n", "f">>
    ELSE FmtSign(x) \o FmtNat(x.q \div 4) \o
         (CASE x.q % 4 = 0 -> <<>>
            [] x.q % 4 = 1 -> <<".", "2", "5">>
            [] x.q % 4 = 2 -> <<".", "5">>
            [] x.q % 4 = 3 -> <<".", "7", "5">>)

-----------------------------------------------------------------------------
(* ControllerState *)

\* Option<(f32, f32)>: None is the empty tuple, Some((h, v)) the pair
None == <<>>
Some(h, v) == <<h, v>>

ControllerState_new ==
    [buttons |-> [i \in 1..NumButtons |-> FALSE], left_stick |-> None, right_stick |-> None]

\* Button::ALL.iter().position(|&b| b == button): the first index, 0 for Option::None
Position(button) ==
    IF \E i \in 1..Len(ALL) : ALL[i] = button
    THEN CHOOSE i \in 1..Len(ALL) : ALL[i] = button /\ \A j \in 1..(i - 1) : ALL[j] # button
    ELSE 0

Bits(b) == [i \in 1..NumButtons |-> IF b[i] THEN "1" ELSE "0"]

STATE_PREFIX == <<"S", "T", "A", "T", "E", " ">>
SP == <<" ">>

\* the right-stick-only branch formatting its left pair like any other value
to_command_minimized(b, l, r) ==
    LET cmd == STATE_PREFIX \o Bits(b) IN
    IF l # None
    THEN cmd \o SP \o FmtF32(l[1]) \o SP \o FmtF32(l[2]) \o
         (IF r # None THEN SP \o FmtF32(r[1]) \o SP \o FmtF32(r[2]) ELSE <<>>)
    ELSE IF r # None
    THEN cmd \o <<" ", "0", " ", "0", " ">> \o FmtF32(r[1]) \o SP \o FmtF32(r[2])
    ELSE cmd

to_command(b, l, r) ==
    LET cmd == STATE_PREFIX \o Bits(b) IN
    IF l # None
    THEN cmd \o SP \o FmtF32(l[1]) \o SP \o FmtF32(l[2]) \o
         (IF r # None THEN SP \o FmtF32(r[1]) \o SP \o FmtF32(r[2]) ELSE <<>>)
    ELSE IF r # None
    THEN cmd \o <<" ", "0", ".", "0", " ", "0", ".", "0", " ">> \o
         FmtF32(r[1]) \o SP \o FmtF32(r[2])
    ELSE cmd


set_button_ignores_pressed(st, button, pressed) ==
    LET idx == Position(button) IN
    IF idx = 0 THEN st ELSE [st EXCEPT !.buttons[idx] = TRUE]

\* Position(..).unwrap() panics on None and nothing is stored
set_button(st, button, pressed) ==
    LET idx == Position(button) IN
    IF idx = 0 THEN st ELSE [st EXCEPT !.buttons[idx] = pressed]

set_left_stick(st, horizontal, vertical) ==
    [st EXCEPT !.left_stick = Some(horizontal, vertical)]

set_right_stick_writes_left(st, horizontal, vertical) ==
    [st EXCEPT !.left_stick = Some(horizontal, vertical)]

set_right_stick(st, horizontal, vertical) ==
    [st EXCEPT !.right_stick = Some(horizontal, vertical)]

-----------------------------------------------------------------------------
(* Values returned by a call, and the record of a call *)

RetSelf == [k |-> "self", s |-> <<>>, e |-> "-"]
RetString(s) == [k |-> "string", s |-> s, e |-> "-"]
RetOk == [k |-> "ok", s |-> <<>>, e |-> "-"]
RetErr(e) == [k |-> "err", s |-> <<>>, e |-> e]
RetPanic == [k |-> "panic", s |-> <<>>, e |-> "-"]
RetNone == [k |-> "none", s |-> <<>>, e |-> "-"]

Call(op, args, cmd) == [op |-> op, args |-> args, cmd |-> cmd]

CurState == [buttons |-> buttons, left_stick |-> left_stick, right_stick |-> right_stick]

StoreState(st) ==
    /\ buttons' = st.buttons
    /\ left_stick' = st.left_stick
    /\ right_stick' = st.right_stick

-----------------------------------------------------------------------------
(* Operations on a ControllerState *)

SetButton(button, pressed) ==
    /\ ncalls < budget
    /\ ret.k # "panic"
    /\ StoreState(set_button(CurState, button, pressed))
    /\ LET found == Position(button) # 0 IN
        /\ ret' = IF found THEN RetSelf ELSE RetPanic
        /\ lastSet' = IF found
                      THEN [lastSet EXCEPT ![button] = IF pressed THEN "true" ELSE "false"]
                      ELSE lastSet
    /\ call' = Call("set_button", <<button, pressed>>, <<>>)
    /\ ncalls' = ncalls + 1
    /\ budget' = budget
    /\ UNCHANGED portVars

SetLeftStick(h, v) ==
    /\ ncalls < budget
    /\ ret.k # "panic"
    /\ StoreState(set_left_stick(CurState, h, v))
    /\ ret' = RetSelf
    /\ call' = Call("set_left_stick", <<h, v>>, <<>>)
    /\ ncalls' = ncalls + 1
    /\ budget' = budget
    /\ UNCHANGED <<portVars, lastSet>>

SetRightStick(h, v) ==
    /\ ncalls < budget
    /\ ret.k # "panic"
    /\ StoreState(set_right_stick(CurState, h, v))
    /\ ret' = RetSelf
    /\ call' = Call("set_right_stick", <<h, v>>, <<>>)
    /\ ncalls' = ncalls + 1
    /\ budget' = budget
    /\ UNCHANGED <<portVars, lastSet>>

\* self.left_stick.take() in place of a copy of the field
ToCommand_take ==
    /\ ncalls < budget
    /\ ret.k # "panic"
    /\ ret' = RetString(to_command(buttons, left_stick, right_stick))
    /\ left_stick' = None
    /\ call' = Call("to_command", <<>>, <<>>)
    /\ ncalls' = ncalls + 1
    /\ budget' = budget
    /\ UNCHANGED <<buttons, right_stick, portVars, lastSet>>

ToCommand ==
    /\ ncalls < budget
    /\ ret.k # "panic"
    /\ ret' = RetString(to_command(buttons, left_stick, right_stick))
    /\ call' = Call("to_command", <<>>, <<>>)
    /\ ncalls' = ncalls + 1
    /\ budget' = budget
    /\ UNCHANGED <<stateVars, portVars, lastSet>>

-----------------------------------------------------------------------------
(* SwitchController: one exclusively owned transport *)

\* What a write or a flush of the transport returns: Ok, or an io::Error
ErrKinds == {"TimedOut", "BrokenPipe"}
Outcomes == {"Ok"} \cup ErrKinds

LF == "\n"

\* Bytes the transport may have accepted of a line whose write failed:
\* nothing, or everything but the line terminator
PartialLens(line) == {0, Len(line) - 1}

WriteEvent(data, res) == [ev |-> "write", data |-> data, res |-> res]
FlushEvent(res) == [ev |-> "flush", data |-> <<>>, res |-> res]

\* send() going on to the flush whatever the write returned
send_flush_always(rcv, log, cmd, w, n, f) ==
    LET line == cmd \o <<LF>>
        rcv1 == rcv \o SubSeq(line, 1, IF w = "Ok" THEN Len(line) ELSE n)
    IN  [received |-> rcv1,
         portlog |-> log \o <<WriteEvent(line, w), FlushEvent(f)>>,
         ret |-> IF f = "Ok" THEN RetOk ELSE RetErr(f)]

\* send() without the line terminator
send_no_newline(rcv, log, cmd, w, n, f) ==
    LET line == cmd
        rcv1 == rcv \o SubSeq(line, 1, IF w = "Ok" THEN Len(line) ELSE n)
        log1 == Append(log, WriteEvent(line, w))
    IN  IF w # "Ok"
        THEN [received |-> rcv1, portlog |-> log1, ret |-> RetErr(w)]
        ELSE [received |-> rcv1, portlog |-> Append(log1, FlushEvent(f)),
              ret |-> IF f = "Ok" THEN RetOk ELSE RetErr(f)]

\* write!(self.port, "{cmd}\n")?; self.port.flush()
\* w, n: what the transport's write returns and how many bytes it took;
\* f: what its flush returns
send(rcv, log, cmd, w, n, f) ==
    LET line == cmd \o <<LF>>
        rcv1 == rcv \o SubSeq(line, 1, IF w = "Ok" THEN Len(line) ELSE n)
        log1 == Append(log, WriteEvent(line, w))
    IN  IF w # "Ok"
        THEN [received |-> rcv1, portlog |-> log1, ret |-> RetErr(w)]
        ELSE [received |-> rcv1, portlog |-> Append(log1, FlushEvent(f)),
              ret |-> IF f = "Ok" THEN RetOk ELSE RetErr(f)]

\* names.join(" ")
RECURSIVE Join(_)
Join(names) ==
    IF names = <<>> THEN <<>>
    ELSE IF Len(names) = 1 THEN names[1]
    ELSE names[1] \o SP \o Join(Tail(names))

\* the names collected into a set-like list: sorted by bit position, no repeats
Names_sorted_dedup(bs) ==
    LET present == {i \in 1..Len(ALL) : \E j \in 1..Len(bs) : bs[j] = ALL[i]}
        nth[k \in 1..Cardinality(present)] ==
            CHOOSE i \in present : Cardinality({j \in present : j < i}) = k - 1
    IN  [k \in 1..Cardinality(present) |-> Button_as_str(ALL[nth[k]])]

Names(bs) == [i \in 1..Len(bs) |-> Button_as_str(bs[i])]

press_cmd(bs) == <<"P", "R", "E", "S", "S", " ">> \o Join(Names(bs))
hold_cmd(bs) == <<"H", "O", "L", "D", " ">> \o Join(Names(bs))
release_cmd(bs) == <<"R", "E", "L", "E", "A", "S", "E", " ">> \o Join(Names(bs))
stick_cmd(stick, h, v) ==
    <<"S", "T", "I", "C", "K", " ">> \o Stick_as_str(stick) \o SP \o FmtF32(h) \o SP \o FmtF32(v)
sleep_cmd(seconds) == <<"S", "L", "E", "E", "P", " ">> \o FmtF32(seconds)

\* A panicked caller makes no further call; the budget caps the run
CanSend == ncalls < budget /\ ret.k # "panic"

\* One session operation: build the command, hand it to send, return its result
Operation(op, args, cmd, w, n, f) ==
    LET r == send(received, portlog, cmd, w, n, f) IN
    /\ received' = r.received
    /\ portlog' = r.portlog
    /\ ret' = r.ret
    /\ call' = Call(op, args, cmd)
    /\ history' = Append(history, [op |-> op, cmd |-> cmd, ok |-> r.ret.k = "ok"])
    /\ ncalls' = ncalls + 1
    /\ budget' = budget
    /\ UNCHANGED <<stateVars, lastSet>>

\* How many bytes of cmd and its terminator the transport took, its write returning w
Accepted(cmd, w) == IF w = "Ok" THEN {Len(cmd) + 1} ELSE PartialLens(cmd \o <<LF>>)

Press(bs) ==
    /\ CanSend
    /\ \E w \in Outcomes, f \in Outcomes : \E n \in Accepted(press_cmd(bs), w) :
        Operation("press", <<bs>>, press_cmd(bs), w, n, f)

Hold(bs) ==
    /\ CanSend
    /\ \E w \in Outcomes, f \in Outcomes : \E n \in Accepted(hold_cmd(bs), w) :
        Operation("hold", <<bs>>, hold_cmd(bs), w, n, f)

Release(bs) ==
    /\ CanSend
    /\ \E w \in Outcomes, f \in Outcomes : \E n \in Accepted(release_cmd(bs), w) :
        Operation("release", <<bs>>, release_cmd(bs), w, n, f)

StickOp(stick, h, v) ==
    /\ CanSend
    /\ \E w \in Outcomes, f \in Outcomes : \E n \in Accepted(stick_cmd(stick, h, v), w) :
        Operation("stick", <<stick, h, v>>, stick_cmd(stick, h, v), w, n, f)

StateOp ==
    /\ CanSend
    /\ \E w \in Outcomes, f \in Outcomes :
        \E n \in Accepted(to_command(buttons, left_stick, right_stick), w) :
            Operation("state", <<CurState>>,
                      to_command(buttons, left_stick, right_stick), w, n, f)

Sleep(seconds) ==
    /\ CanSend
    /\ \E w \in Outcomes, f \in Outcomes : \E n \in Accepted(sleep_cmd(seconds), w) :
        Operation("sleep", <<seconds>>, sleep_cmd(seconds), w, n, f)

-----------------------------------------------------------------------------
(* Inputs *)

Zero == Fin(FALSE, 0)
NegZero == Fin(TRUE, 0)
Half == Fin(FALSE, 2)
One == Fin(FALSE, 4)
NegOne == Fin(TRUE, 4)

\* (h, v) pairs given to the stick setters: the values of the crate's tests,
\* signed zero, values outside [-1.0, 1.0], and the non-finite values of f32
StickInputs ==
    { <<Half, NegOne>>, <<Zero, Zero>>, <<NegOne, Zero>>, <<NegZero, One>>,
      <<Fin(FALSE, 4000000), Fin(TRUE, 401)>>,
      <<NaN, Inf(FALSE)>>, <<Inf(TRUE), Fin(FALSE, 3)>> }

\* ControllerStates handed to a session, each built by the setters from new()
SampleStates ==
    { ControllerState_new,
      set_left_stick(set_button(ControllerState_new, "A", TRUE), Half, NegOne),
      set_right_stick(set_button(ControllerState_new, "DpadRight", TRUE), NegOne, Zero) }

\* arguments of the session operations in SpecSession
SessButtonSeqs == { <<"ZL", "A">> }
SessStickArgs == { <<"Right", Half, NegOne>> }
SessSleeps == { Fin(FALSE, 1) }

\* (h, v) pairs given to the stick setters in SpecState
StateSticks == { <<Half, NegOne>>, <<NegOne, Zero>> }

\* set_button arguments in SpecEncode
EncodeButtons == { "A", "X", "Y" }

\* setter arguments in SpecResend
ResendButtons == { "A" }
ResendSticks == { <<NegOne, Zero>> }

\* button slices given to press / hold / release in SpecPress: every single
\* button, and every slice of up to MaxButtons of PressButtons
PressButtons == { "A", "B", "ZL", "Capture", "LStick", "DpadRight" }
ButtonSlices ==
    { <<b>> : b \in Button } \cup UNION { [1..k -> PressButtons] : k \in 0..MaxButtons }

-----------------------------------------------------------------------------
(* Specifications *)

FreshPort ==
    /\ received = <<>>
    /\ portlog = <<>>
    /\ history = <<>>
    /\ ret = RetNone
    /\ call = Call("none", <<>>, <<>>)
    /\ ncalls = 0

\* ControllerState::new()
NewState ==
    /\ buttons = ControllerState_new.buttons
    /\ left_stick = ControllerState_new.left_stick
    /\ right_stick = ControllerState_new.right_stick
    /\ lastSet = [b \in Button |-> "never"]

\* a ControllerState the caller has built with the setters
BuiltState ==
    \E st \in SampleStates :
        /\ buttons = st.buttons
        /\ left_stick = st.left_stick
        /\ right_stick = st.right_stick
        /\ lastSet = [b \in Button |-> IF st.buttons[Position(b)] THEN "true" ELSE "never"]

InitState == NewState /\ FreshPort /\ budget = MaxSteps
InitEncode == NewState /\ FreshPort /\ budget = MaxCalls
InitSession == BuiltState /\ FreshPort /\ budget = MaxSends
InitPress == NewState /\ FreshPort /\ budget = 1
InitResend == BuiltState /\ FreshPort /\ budget = MaxSteps

\* the builder over all 18 buttons, and its encoder
NextState ==
    \/ \E b \in Button, p \in BOOLEAN : SetButton(b, p)
    \/ \E hv \in StateSticks : SetLeftStick(hv[1], hv[2])
    \/ \E hv \in StateSticks : SetRightStick(hv[1], hv[2])
    \/ ToCommand

\* the builder over the buttons of the crate's tests, and its encoder
NextEncode ==
    \/ \E b \in EncodeButtons, p \in BOOLEAN : SetButton(b, p)
    \/ \E hv \in StickInputs : SetLeftStick(hv[1], hv[2])
    \/ \E hv \in StickInputs : SetRightStick(hv[1], hv[2])
    \/ ToCommand

\* the operations of a session on a ControllerState its caller holds
NextSession ==
    \/ \E bs \in SessButtonSeqs : Press(bs)
    \/ \E bs \in SessButtonSeqs : Hold(bs)
    \/ \E bs \in SessButtonSeqs : Release(bs)
    \/ \E a \in SessStickArgs : StickOp(a[1], a[2], a[3])
    \/ StateOp
    \/ \E s \in SessSleeps : Sleep(s)
    \/ ToCommand

\* one press, hold or release of any slice on a fresh session
NextPress ==
    \/ \E bs \in ButtonSlices : Press(bs)
    \/ \E bs \in ButtonSlices : Hold(bs)
    \/ \E bs \in ButtonSlices : Release(bs)

\* a caller that changes a ControllerState, encodes it and sends it
NextResend ==
    \/ \E b \in ResendButtons, p \in BOOLEAN : SetButton(b, p)
    \/ \E hv \in ResendSticks : SetLeftStick(hv[1], hv[2])
    \/ \E hv \in ResendSticks : SetRightStick(hv[1], hv[2])
    \/ ToCommand
    \/ StateOp

SpecState == InitState /\ [][NextState]_vars
SpecEncode == InitEncode /\ [][NextEncode]_vars
SpecSession == InitSession /\ [][NextSession]_vars
SpecPress == InitPress /\ [][NextPress]_vars
SpecResend == InitResend /\ [][NextResend]_vars

-----------------------------------------------------------------------------
(* Reading a wire line: the protocol as section 6 of the specification gives it *)

\* the tokens of a line, split at every single space
RECURSIVE Split(_)
Split(s) ==
    IF \A i \in 1..Len(s) : s[i] # " " THEN <<s>>
    ELSE LET i == CHOOSE k \in 1..Len(s) : s[k] = " " /\ \A j \in 1..(k - 1) : s[j] # " "
         IN  <<SubSeq(s, 1, i - 1)>> \o Split(SubSeq(s, i + 1, Len(s)))

\* the 18 buttons in canonical bit order 0..17, and their wire names in that order
CanonicalOrder ==
    <<"A", "B", "X", "Y", "L", "R", "ZL", "ZR", "Plus", "Minus", "Home", "Capture",
      "LStick", "RStick", "DpadUp", "DpadDown", "DpadLeft", "DpadRight">>

WireNameList ==
    << <<"a">>, <<"b">>, <<"x">>, <<"y">>, <<"l">>, <<"r">>, <<"z", "l">>, <<"z", "r">>,
       <<"p", "l", "u", "s">>, <<"m", "i", "n", "u", "s">>, <<"h", "o", "m", "e">>,
       <<"c", "a", "p", "t", "u", "r", "e">>, <<"l", "_", "s", "t", "i", "c", "k">>,
       <<"r", "_", "s", "t", "i", "c", "k">>, <<"d", "p", "a", "d", "_", "u", "p">>,
       <<"d", "p", "a", "d", "_", "d", "o", "w", "n">>,
       <<"d", "p", "a", "d", "_", "l", "e", "f", "t">>,
       <<"d", "p", "a", "d", "_", "r", "i", "g", "h", "t">> >>

STATE_WORD == <<"S", "T", "A", "T", "E">>

\* the string to_command() has just returned
Encoded == call.op = "to_command" /\ ret.k = "string"

-----------------------------------------------------------------------------
(* C1 *)

\* C1: after any sequence of set_button calls on a new ControllerState, the bit
\* string to_command() emits (the token after STATE) is exactly 18 characters
\* long, and its character at position i is '1' exactly when the latest
\* set_button call for the button at canonical position i passed pressed = true,
\* and '0' when that button was never set or was last set to false.
C1_BitString ==
    Encoded =>
        LET t == Split(ret.s) IN
        /\ Len(t) >= 2
        /\ t[1] = STATE_WORD
        /\ Len(t[2]) = 18
        /\ \A i \in 1..18 :
            t[2][i] = IF lastSet[CanonicalOrder[i]] = "true" THEN "1" ELSE "0"

\* to_command() called after set_button calls that left A released and ZR pressed
C1_Witness ==
    /\ Encoded
    /\ lastSet["A"] = "false"
    /\ lastSet["ZR"] = "true"
    /\ Split(ret.s)[2] = <<"0", "0", "0", "0", "0", "0", "0", "1", "0", "0", "0", "0",
                           "0", "0", "0", "0", "0", "0">>

-----------------------------------------------------------------------------
(* C2 *)

\* the tables of C2: Button::ALL against the variants, as_str against the names
C2_Tables ==
    /\ Len(ALL) = 18
    /\ \A b \in Button : Cardinality({i \in 1..Len(ALL) : ALL[i] = b}) = 1
    /\ \A b1, b2 \in Button : Button_as_str(b1) = Button_as_str(b2) => b1 = b2
    /\ \A i \in 1..18 : Button_as_str(ALL[i]) = WireNameList[i]

\* C2: Button::ALL holds every one of the 18 variants exactly once, no two
\* variants share a wire name, the wire name of the variant at position i is the
\* i-th name of the protocol's list, and a state in which exactly one button is
\* set encodes to a bit string with a single '1', at that button's position.
C2_Bijection ==
    /\ C2_Tables
    /\ Encoded =>
        LET set == {j \in 1..18 : lastSet[CanonicalOrder[j]] = "true"}
            bits == Split(ret.s)[2]
        IN  Cardinality(set) = 1 =>
                /\ Len(bits) = 18
                /\ \A j \in 1..18 : bits[j] = IF j \in set THEN "1" ELSE "0"

\* to_command() called on a state whose only set button is DpadRight (position 17)
C2_Witness ==
    /\ Encoded
    /\ \A b \in Button : (lastSet[b] = "true") <=> (b = "DpadRight")
    /\ ret.s = STATE_PREFIX \o [j \in 1..18 |-> IF j = 18 THEN "1" ELSE "0"]

-----------------------------------------------------------------------------
(* Numeric tokens *)

DigitChars == {"0", "1", "2", "3", "4", "5", "6", "7", "8", "9"}

IsDigits(t) == Len(t) >= 1 /\ \A i \in 1..Len(t) : t[i] \in DigitChars

Unsigned(t) == IF Len(t) >= 1 /\ t[1] = "-" THEN Tail(t) ELSE t

DotAt(u) == {i \in 1..Len(u) : u[i] = "."}

IntPart(u) == IF DotAt(u) = {} THEN u ELSE SubSeq(u, 1, (CHOOSE i \in DotAt(u) : TRUE) - 1)

FracPart(u) ==
    IF DotAt(u) = {} THEN <<>> ELSE SubSeq(u, (CHOOSE i \in DotAt(u) : TRUE) + 1, Len(u))

\* a decimal numeral: an optional '-', digits, and optionally '.' and digits
IsDecimalToken(t) ==
    LET u == Unsigned(t) IN
    /\ Cardinality(DotAt(u)) <= 1
    /\ IsDigits(IntPart(u))
    /\ DotAt(u) # {} => IsDigits(FracPart(u))

DigitValue(c) == CHOOSE d \in 0..9 : Digit(d) = c

RECURSIVE NatValue(_)
NatValue(ds) ==
    IF ds = <<>> THEN 0
    ELSE 10 * NatValue(SubSeq(ds, 1, Len(ds) - 1)) + DigitValue(ds[Len(ds)])

RECURSIVE Pow10(_)
Pow10(n) == IF n = 0 THEN 1 ELSE 10 * Pow10(n - 1)

\* token t is the minimal decimal form of the finite value x: it reads back as
\* x, sign included, with no '.' when x is integral, no zero ending a fraction
\* and no zero leading the integer digits
IsMinimalDecimalOf(t, x) ==
    LET u == Unsigned(t)
        ip == IntPart(u)
        fp == FracPart(u)
    IN  /\ x.k = "fin"
        /\ IsDecimalToken(t)
        /\ (t[1] = "-") <=> x.neg
        /\ 4 * (NatValue(ip) * Pow10(Len(fp)) + NatValue(fp)) = x.q * Pow10(Len(fp))
        /\ x.q % 4 = 0 => DotAt(u) = {}
        /\ fp # <<>> => fp[Len(fp)] # "0"
        /\ Len(ip) > 1 => ip[1] # "0"

ZeroDotZero == <<"0", ".", "0">>

OnlyA == [i \in 1..18 |-> i = 1]

-----------------------------------------------------------------------------
(* C3 *)

\* C3: when the left stick is unset and the right stick is set to (rh, rv),
\* to_command() emits after the bit string the two literal tokens 0.0 0.0 (not
\* the minimized 0 0) and then rh and rv in minimal decimal form; when the left
\* stick was set explicitly, even to (0.0, 0.0), the literal pair is not emitted.
C3_Placeholder ==
    Encoded =>
        LET t == Split(ret.s) IN
        /\ (left_stick = None /\ right_stick # None) =>
            /\ Len(t) = 6
            /\ t[3] = ZeroDotZero
            /\ t[4] = ZeroDotZero
            /\ \A c \in 1..2 :
                right_stick[c].k = "fin" => IsMinimalDecimalOf(t[4 + c], right_stick[c])
        /\ left_stick # None =>
            /\ Len(t) >= 4
            /\ ~(t[3] = ZeroDotZero /\ t[4] = ZeroDotZero)
        /\ left_stick = Some(Zero, Zero) => (t[3] = <<"0">> /\ t[4] = <<"0">>)
        /\ (left_stick = None /\ right_stick = None) => Len(t) = 2

\* to_command() on a state whose only setter call was set_right_stick(-1.0, 0.0)
C3_Witness ==
    /\ Encoded
    /\ left_stick = None
    /\ right_stick = Some(NegOne, Zero)
    /\ ret.s = STATE_PREFIX \o [i \in 1..18 |-> "0"] \o
               <<" ", "0", ".", "0", " ", "0", ".", "0", " ", "-", "1", " ", "0">>

-----------------------------------------------------------------------------
(* C4 *)

\* C4: for every ControllerState, whatever its flags and stick values (values
\* outside [-1.0, 1.0] included), to_command() returns a string of the grammar
\* STATE <18-bit string>[ <lh> <lv>[ <rh> <rv>]]: 2 space-separated tokens when
\* no stick is set, 4 when only the left stick is set, 6 when the right stick
\* is set, every stick token a numeric token.
C4_AlwaysWellFormed ==
    call.op = "to_command" =>
        LET t == Split(ret.s) IN
        /\ ret.k = "string"
        /\ Len(t) = IF right_stick # None THEN 6 ELSE IF left_stick # None THEN 4 ELSE 2
        /\ t[1] = STATE_WORD
        /\ Len(t[2]) = 18
        /\ \A i \in 1..18 : t[2][i] \in {"0", "1"}
        /\ \A i \in 3..Len(t) : IsDecimalToken(t[i])

\* The part of C4 that holds of the code: the token counts in every state, and
\* numeric stick tokens in every state whose stick values are all finite.
C4_FiniteWellFormed ==
    call.op = "to_command" =>
        LET t == Split(ret.s)
            set == (IF left_stick # None THEN {left_stick[1], left_stick[2]} ELSE {})
                   \cup (IF right_stick # None THEN {right_stick[1], right_stick[2]} ELSE {})
        IN  /\ ret.k = "string"
            /\ Len(t) = IF right_stick # None THEN 6 ELSE IF left_stick # None THEN 4 ELSE 2
            /\ t[1] = STATE_WORD
            /\ Len(t[2]) = 18
            /\ \A i \in 1..18 : t[2][i] \in {"0", "1"}
            /\ (\A x \in set : x.k = "fin") => \A i \in 3..Len(t) : IsDecimalToken(t[i])

-----------------------------------------------------------------------------
(* C8 *)

\* the value and the token of every explicitly set stick component
SetComponents(t) ==
    (IF left_stick # None THEN {<<left_stick[c], t[2 + c]>> : c \in 1..2} ELSE {})
    \cup (IF right_stick # None THEN {<<right_stick[c], t[4 + c]>> : c \in 1..2} ELSE {})

\* C8: every explicitly set stick value of a STATE command, of the left pair as
\* of the right pair, is rendered in minimal decimal form, an integral value
\* without ".0" (0.0 as 0, -1.0 as -1, 1.0 as 1, 0.5 as 0.5); button A with left
\* stick (0.0, 0.0) and right stick (-1.0, 0.0) gives
\* "STATE 100000000000000000 0 0 -1 0", and button A with left stick
\* (0.5, -1.0) gives "STATE 100000000000000000 0.5 -1". (A value that is not
\* finite has no decimal form; the claim is read over the finite values.)
C8_MinimalDecimal ==
    Encoded =>
        LET t == Split(ret.s) IN
        /\ \A p \in SetComponents(t) :
            /\ p[1].k = "fin" => IsMinimalDecimalOf(p[2], p[1])
            /\ p[1] = Zero => p[2] = <<"0">>
            /\ p[1] = NegOne => p[2] = <<"-", "1">>
            /\ p[1] = One => p[2] = <<"1">>
            /\ p[1] = Half => p[2] = <<"0", ".", "5">>
        /\ (buttons = OnlyA /\ left_stick = Some(Zero, Zero)
                /\ right_stick = Some(NegOne, Zero)) =>
            ret.s = STATE_PREFIX \o Bits(OnlyA) \o
                    <<" ", "0", " ", "0", " ", "-", "1", " ", "0">>
        /\ (buttons = OnlyA /\ left_stick = Some(Half, NegOne) /\ right_stick = None) =>
            ret.s = STATE_PREFIX \o Bits(OnlyA) \o
                    <<" ", "0", ".", "5", " ", "-", "1">>

\* to_command() on button A, left stick (0.0, 0.0), right stick (-1.0, 0.0)
C8_Witness ==
    /\ Encoded
    /\ buttons = OnlyA
    /\ left_stick = Some(Zero, Zero)
    /\ right_stick = Some(NegOne, Zero)
    /\ Split(ret.s)[2] = <<"1", "0", "0", "0", "0", "0", "0", "0", "0", "0", "0", "0",
                           "0", "0", "0", "0", "0", "0">>
    /\ SubSeq(Split(ret.s), 3, 6) = << <<"0">>, <<"0">>, <<"-", "1">>, <<"0">> >>

-----------------------------------------------------------------------------
(* C10 *)

Setters == {"set_button", "set_left_stick", "set_right_stick"}

CanonicalPosition(b) == CHOOSE i \in 1..18 : CanonicalOrder[i] = b

\* C10: each setter changes only its own field. set_button(b, p) makes the flag
\* at b's canonical position p and leaves the other 17 flags and both sticks as
\* they were; set_left_stick stores its pair, over any earlier one, and leaves
\* the flags and the right stick; set_right_stick likewise leaves the flags and
\* the left stick; no setter takes a stick from set to unset.
C10_Frame ==
    [][ /\ call'.op = "set_button" =>
            /\ buttons' = [buttons EXCEPT ![CanonicalPosition(call'.args[1])] = call'.args[2]]
            /\ left_stick' = left_stick
            /\ right_stick' = right_stick
        /\ call'.op = "set_left_stick" =>
            /\ left_stick' = Some(call'.args[1], call'.args[2])
            /\ buttons' = buttons
            /\ right_stick' = right_stick
        /\ call'.op = "set_right_stick" =>
            /\ right_stick' = Some(call'.args[1], call'.args[2])
            /\ buttons' = buttons
            /\ left_stick' = left_stick
        /\ call'.op \in Setters =>
            /\ left_stick # None => left_stick' # None
            /\ right_stick # None => right_stick' # None
      ]_vars

\* set_right_stick called on a state that already holds a flag and a left stick
C10_Witness ==
    /\ call.op = "set_right_stick"
    /\ right_stick = Some(NegOne, Zero)
    /\ left_stick = Some(Half, NegOne)
    /\ \E i \in 1..18 : buttons[i]

-----------------------------------------------------------------------------
(* C9 *)

\* the bytes offered to the transport by the latest write
LastLine(log) ==
    LET w == {i \in 1..Len(log) : log[i].ev = "write"} IN
    log[CHOOSE i \in w : \A j \in w : j <= i].data

\* C9: to_command() only reads the state: a call of it, and a state(..) call
\* sending the state, leave the flags and both sticks as they were; two calls of
\* to_command() with no call in between return the same string; a state sent
\* again gives the same line, the string to_command() returns and a terminator.
C9_PureRead ==
    [][ /\ call'.op \in {"to_command", "state"} =>
            /\ buttons' = buttons
            /\ left_stick' = left_stick
            /\ right_stick' = right_stick
        /\ (call.op = "to_command" /\ call'.op = "to_command") => ret'.s = ret.s
        /\ (call.op = "state" /\ call'.op = "state") =>
            LastLine(portlog') = LastLine(portlog)
        /\ (call.op = "to_command" /\ call'.op = "state") =>
            LastLine(portlog') = ret.s \o <<LF>>
      ]_vars

\* a state with a left stick sent twice in a row, both times with success
C9_Witness ==
    /\ call.op = "state"
    /\ left_stick # None
    /\ Len(history) = 2
    /\ history[1].op = "state" /\ history[1].ok
    /\ history[2].op = "state" /\ history[2].ok
    /\ received = history[1].cmd \o <<LF>> \o history[1].cmd \o <<LF>>

-----------------------------------------------------------------------------
(* C5 *)

RECURSIVE Flatten(_)
Flatten(ss) == IF ss = <<>> THEN <<>> ELSE Head(ss) \o Flatten(Tail(ss))

\* C5: when every operation called on the session so far has succeeded, the
\* bytes the transport received are the operations' command strings, each with
\* one "\n" after it, concatenated in call order, and the transport saw, per
\* command in call order, one write of that whole line and then one flush.
C5_WireOrder ==
    (\A i \in 1..Len(history) : history[i].ok) =>
        /\ received = Flatten([i \in 1..Len(history) |-> history[i].cmd \o <<LF>>])
        /\ portlog = Flatten([i \in 1..Len(history) |->
                        <<WriteEvent(history[i].cmd \o <<LF>>, "Ok"), FlushEvent("Ok")>>])

\* press([ZL, A]) and then sleep(0.25), both successful
C5_Witness ==
    /\ Len(history) = 2
    /\ history[1].op = "press" /\ history[1].ok
    /\ history[2].op = "sleep" /\ history[2].ok
    /\ received = <<"P", "R", "E", "S", "S", " ", "z", "l", " ", "a", LF,
                    "S", "L", "E", "E", "P", " ", "0", ".", "2", "5", LF>>

-----------------------------------------------------------------------------
(* C6 *)

SessionOps == {"press", "hold", "release", "stick", "state", "sleep"}

-----------------------------------------------------------------------------
(* C7 *)

Verb(op) ==
    CASE op = "press" -> <<"P", "R", "E", "S", "S">>
      [] op = "hold" -> <<"H", "O", "L", "D">>
      [] op = "release" -> <<"R", "E", "L", "E", "A", "S", "E">>

WireName(b) == WireNameList[CanonicalPosition(b)]

\* C7: for every slice of buttons given to press, hold or release, the line
\* handed to the transport is the verb PRESS, HOLD or RELEASE, one space, the
\* buttons' wire names joined by single spaces in the order given, repeats kept,
\* and one "\n"; press([A]) sends exactly "PRESS a\n"; the operation fails only
\* with an error of the transport, never for the slice it was given.
C7_ButtonLine ==
    call.op \in {"press", "hold", "release"} =>
        LET bs == call.args[1]
            line == portlog[1].data
            body == SubSeq(line, 1, Len(line) - 1)
        IN  /\ portlog[1].ev = "write"
            /\ Len(line) >= 1
            /\ line[Len(line)] = LF
            /\ \A i \in 1..Len(body) : body[i] # LF
            /\ IF bs = <<>>
               THEN body = Verb(call.op) \o <<" ">>
               ELSE Split(body) = <<Verb(call.op)>> \o [i \in 1..Len(bs) |-> WireName(bs[i])]
            /\ ret.k \in {"ok", "err"}
            /\ ret.k = "err" => \E i \in 1..Len(portlog) : portlog[i].res = ret.e
            /\ ret.k = "ok" => received = line
            /\ (call.op = "press" /\ bs = <<"A">> /\ ret.k = "ok") =>
                received = <<"P", "R", "E", "S", "S", " ", "a", LF>>

\* press([ZL, A]) sent: the names in the order given, not in bit order
C7_Witness ==
    /\ call.op = "press"
    /\ call.args[1] = <<"ZL", "A">>
    /\ ret = RetOk
    /\ received = <<"P", "R", "E", "S", "S", " ", "z", "l", " ", "a", LF>>

====
